---- MODULE Spec2Model ----
(***************************************************************************)
(* Model of the Elasticsearch keyword-vs-flattened benchmark tooling:      *)
(*   generate_bulk.py    - corpus generator (bulk JSONL)                   *)
(*   generate_queries.py - filter-query generator                          *)
(*   index_data.py       - index creation and chunked bulk loader          *)
(*                                                                         *)
(* Floating-point weights are modelled as exact rationals <<num, den>>     *)
(* (the real numbers the float expressions denote); IEEE-754 rounding is   *)
(* not modelled.  A seeded random.Random is modelled by the set of         *)
(* outcomes its calls can return.                                          *)
(***************************************************************************)
EXTENDS Integers, Sequences, FiniteSets, TLC

VARIABLES
    smpIn,      \* stand-alone sampler: constructor arguments and defining module
    smp,        \* stand-alone sampler: the SkewedSampler object
    smpOut,     \* stand-alone sampler: values returned by sample() so far
    smpPc,      \* stand-alone sampler: "new", "ready" or "ValueError"
    bIn,        \* generate_bulk: arguments (mode, index_name, fields, doc_count, seed)
    bHash,      \* generate_bulk: this process's str hash, per field name
    bSamplers,  \* generate_bulk: samplers dict
    bFile,      \* generate_bulk: the output file (exists, lines)
    bDocId,     \* generate_bulk: next doc_id of the write loop
    bPc,        \* generate_bulk: position / outcome of the run
    qIn,        \* generate_queries: arguments
    qHash,      \* generate_queries: this process's str hash, per field name
    qSamplers,  \* generate_queries: samplers dict
    qKeyword,   \* generate_queries: keyword_queries list
    qFlattened, \* generate_queries: flattened_queries list
    qFiles,     \* generate_queries: the two output files
    qPc,        \* generate_queries: position / outcome of the run
    lIn,        \* index_data: arguments and the bulk file's lines
    es,         \* index_data: the search engine's state for the index
    lPc,        \* index_data: position of main / bulk_ingest
    lBulkLines, \* index_data: bulk_lines
    lChunkStart,\* index_data: chunk_start of the next chunk
    lSent,      \* index_data: the bodies posted to _bulk, in order
    lPuts,      \* index_data: the refresh_interval settings requests made, in order
    lResponses, \* index_data: the _bulk responses received, in order
    lCounts,    \* index_data: doc_count, error_count, errors
    lExit       \* index_data: how the process ended (reason, code)

smpVars == <<smpIn, smp, smpOut, smpPc>>
bVars == <<bIn, bHash, bSamplers, bFile, bDocId, bPc>>
qVars == <<qIn, qHash, qSamplers, qKeyword, qFlattened, qFiles, qPc>>
lVars == <<lIn, es, lPc, lBulkLines, lChunkStart, lSent, lPuts, lResponses, lCounts, lExit>>
vars == <<smpVars, bVars, qVars, lVars>>

(***************************************************************************)
(* Bounds of the model.                                                    *)
(***************************************************************************)
MaxCard == 9        \* largest cardinality of a stand-alone sampler
MaxDraws == 2       \* draws taken from a stand-alone sampler
MaxValues == 3      \* largest value list of a generate_bulk catalog field
MaxQueryValues == 1 \* largest value list of a generate_queries catalog field
MaxDocs == 2        \* largest doc_count
MaxQueries == 1     \* largest query_count
MaxFilters == 3     \* largest min_filters / max_filters argument
MaxLoadDocs == 3    \* largest corpus handed to the loader, in documents
MaxChunk == 2       \* largest --chunk-docs

(***************************************************************************)
(* Exact rational arithmetic standing for Python float arithmetic.         *)
(***************************************************************************)
RECURSIVE GCD(_, _)
GCD(a, b) == IF b = 0 THEN a ELSE GCD(b, a % b)

Rat(n, d) == LET g == GCD(n, d) IN IF g = 0 THEN <<0, 1>> ELSE <<n \div g, d \div g>>

RatAdd(a, b) ==
    LET g == GCD(a[2], b[2])
        l == (a[2] \div g) * b[2]
    IN  Rat(a[1] * (l \div a[2]) + b[1] * (l \div b[2]), l)

RatMul(a, b) ==
    LET g1 == GCD(a[1], b[2])
        g2 == GCD(b[1], a[2])
        h1 == IF g1 = 0 THEN 1 ELSE g1
        h2 == IF g2 = 0 THEN 1 ELSE g2
    IN  Rat((a[1] \div h1) * (b[1] \div h2), (a[2] \div h2) * (b[2] \div h1))

\* a / b for b > 0
RatDiv(a, b) == RatMul(a, <<b[2], b[1]>>)

\* n1/d1 <= n2/d2 for n >= 0, d > 0, by continued fractions (no products)
RECURSIVE FracLeq(_, _, _, _)
FracLeq(n1, d1, n2, d2) ==
    IF n1 \div d1 /= n2 \div d2 THEN n1 \div d1 < n2 \div d2
    ELSE IF n1 % d1 = 0 THEN TRUE
    ELSE IF n2 % d2 = 0 THEN FALSE
    ELSE FracLeq(d2, n2 % d2, d1, n1 % d1)

RatLeq(a, b) == FracLeq(a[1], a[2], b[1], b[2])

RECURSIVE RatPow(_, _)
RatPow(a, n) == IF n = 0 THEN <<1, 1>> ELSE RatMul(a, RatPow(a, n - 1))

\* Python's sum(xs): left-to-right addition starting from 0
RECURSIVE RatSumTo(_, _)
RatSumTo(xs, n) == IF n = 0 THEN <<0, 1>> ELSE RatAdd(RatSumTo(xs, n - 1), xs[n])

RatSum(xs) == RatSumTo(xs, Len(xs))

(***************************************************************************)
(* compute_skewed_probabilities (generate_bulk.py).                        *)
(***************************************************************************)
BulkTailRatio == <<17, 20>>     \* 0.85
BulkTailMass == <<2, 5>>        \* 0.40

BulkHeadProbs == << <<3, 10>>, <<1, 5>>, <<1, 10>> >>   \* [0.3, 0.2, 0.1]

\* mutant: the tail grows instead of decaying (ratio 1 / 0.85)
BulkTailWeightsGrowing(tail_size) ==
    [i \in 1..(IF tail_size > 0 THEN tail_size ELSE 0) |-> RatPow(<<20, 17>>, i - 1)]

\* tail_weights = [0.85 ** (i - 1) for i in range(1, tail_size + 1)]
BulkTailWeights(tail_size) ==
    [i \in 1..(IF tail_size > 0 THEN tail_size ELSE 0) |-> RatPow(BulkTailRatio, i - 1)]

\* mutant: the tail weights are scaled by 0.40 without being normalised
BulkTailProbsUnnormalised(tail_size) ==
    [i \in 1..(IF tail_size > 0 THEN tail_size ELSE 0) |->
        RatMul(<<2, 5>>, RatPow(<<17, 20>>, i - 1))]

\* tail_probs = [0.40 * (w / tail_sum) for w in tail_weights]
BulkTailProbs(tail_size) ==
    LET tail_weights == BulkTailWeights(tail_size)
        tail_sum == RatSum(tail_weights)
    IN  [i \in 1..Len(tail_weights) |->
            RatMul(BulkTailMass, RatDiv(tail_weights[i], tail_sum))]

compute_skewed_probabilities(num_values) ==
    IF num_values = 1 THEN << <<1, 1>> >>
    ELSE IF num_values = 2 THEN << <<3, 10>>, <<7, 10>> >>
    ELSE IF num_values = 3 THEN << <<3, 10>>, <<1, 5>>, <<1, 2>> >>
    ELSE BulkHeadProbs \o BulkTailProbs(num_values - 3)

(***************************************************************************)
(* compute_skewed_probabilities (generate_queries.py), a second copy.      *)
(***************************************************************************)
QueryTailProbs(tail_size) ==
    LET tail_weights ==
            [i \in 1..(IF tail_size > 0 THEN tail_size ELSE 0) |-> RatPow(<<17, 20>>, i - 1)]
        tail_sum == RatSum(tail_weights)
    IN  [i \in 1..Len(tail_weights) |->
            RatMul(<<2, 5>>, RatDiv(tail_weights[i], tail_sum))]

query_compute_skewed_probabilities(num_values) ==
    IF num_values = 1 THEN << <<1, 1>> >>
    ELSE IF num_values = 2 THEN << <<3, 10>>, <<7, 10>> >>
    ELSE IF num_values = 3 THEN << <<3, 10>>, <<1, 5>>, <<1, 2>> >>
    ELSE << <<3, 10>>, <<1, 5>>, <<1, 10>> >> \o QueryTailProbs(num_values - 3)

(***************************************************************************)
(* class SkewedSampler (both modules define the same class).               *)
(* rng is random.Random(seed): its state is fixed by the seed and the      *)
(* number of draws taken, which the record keeps.                          *)
(***************************************************************************)
Modules == {"generate_bulk", "generate_queries"}

SkewedSampler(module, values, seed) ==
    [values |-> values,
     seed   |-> seed,
     draws  |-> 0,
     probs  |-> IF module = "generate_bulk"
                THEN compute_skewed_probabilities(Len(values))
                ELSE query_compute_skewed_probabilities(Len(values))]

\* rng.choices(values, weights=probs, k=1) raises ValueError when the number of
\* weights differs from the population size
SampleRaises(s) == Len(s.probs) /= Len(s.values)

\* the values rng.choices can return: every value whose weight is positive
SampleOutcomes(s) ==
    {s.values[i] : i \in {j \in 1..Len(s.values) : ~RatLeq(s.probs[j], <<0, 1>>)}}

Drawn(s) == [s EXCEPT !.draws = @ + 1]

\* a value list of K candidate values
ValueList(K) == [i \in 1..K |-> "v" \o ToString(i)]

Seeds == {0, 42}

NoSampler == [values |-> <<>>, seed |-> 0, draws |-> 0, probs |-> <<>>]

(***************************************************************************)
(* The state of a program that is not running.                             *)
(***************************************************************************)
SamplerIdle ==
    /\ smpIn = [module |-> "generate_bulk", values |-> <<>>, seed |-> 0]
    /\ smp = NoSampler
    /\ smpOut = <<>>
    /\ smpPc = "idle"

BulkIdle ==
    /\ bIn = [mode |-> "keyword", index_name |-> "bench", fields |-> <<>>,
              doc_count |-> 0, seed |-> 0]
    /\ bHash = << >>
    /\ bSamplers = << >>
    /\ bFile = [exists |-> FALSE, lines |-> <<>>]
    /\ bDocId = 1
    /\ bPc = "idle"

QueryIdle ==
    /\ qIn = [keyword_index |-> "bench_kw", flattened_index |-> "bench_flat",
              fields |-> <<>>, query_count |-> 0, min_filters |-> 0,
              max_filters |-> 0, seed |-> 0]
    /\ qHash = << >>
    /\ qSamplers = << >>
    /\ qKeyword = <<>>
    /\ qFlattened = <<>>
    /\ qFiles = [keyword |-> [exists |-> FALSE, lines |-> <<>>],
                 flattened |-> [exists |-> FALSE, lines |-> <<>>]]
    /\ qPc = "idle"

LoaderIdle ==
    /\ lIn = [bulk_file |-> <<>>, chunk_docs |-> 1, recreate |-> FALSE, refresh |-> FALSE]
    /\ es = [exists |-> FALSE, refresh_interval |-> "1s"]
    /\ lPc = "idle"
    /\ lBulkLines = <<>>
    /\ lChunkStart = 0
    /\ lSent = <<>>
    /\ lPuts = <<>>
    /\ lResponses = <<>>
    /\ lCounts = [doc_count |-> 0, error_count |-> 0, errors |-> <<>>]
    /\ lExit = [reason |-> "running", code |-> 0]

(***************************************************************************)
(* A sampler on its own: construction, then sample() calls.                *)
(***************************************************************************)
SamplerInit ==
    /\ smpIn \in [module : Modules, values : {ValueList(K) : K \in 0..MaxCard}, seed : Seeds]
    /\ smp = NoSampler
    /\ smpOut = <<>>
    /\ smpPc = "new"
    /\ BulkIdle /\ QueryIdle /\ LoaderIdle

SamplerConstruct ==
    /\ smpPc = "new"
    /\ smp' = SkewedSampler(smpIn.module, smpIn.values, smpIn.seed)
    /\ smpPc' = "ready"
    /\ UNCHANGED <<smpIn, smpOut>>
    /\ UNCHANGED <<bVars, qVars, lVars>>

SamplerSample ==
    /\ smpPc = "ready"
    /\ Len(smpOut) < MaxDraws
    /\ ~SampleRaises(smp)
    /\ \E v \in SampleOutcomes(smp) :
          /\ smpOut' = Append(smpOut, v)
          /\ smp' = Drawn(smp)
    /\ UNCHANGED <<smpIn, smpPc>>
    /\ UNCHANGED <<bVars, qVars, lVars>>

SamplerSampleRaises ==
    /\ smpPc = "ready"
    /\ Len(smpOut) < MaxDraws
    /\ SampleRaises(smp)
    /\ smpPc' = "ValueError"
    /\ UNCHANGED <<smpIn, smp, smpOut>>
    /\ UNCHANGED <<bVars, qVars, lVars>>

SamplerNext == SamplerConstruct \/ SamplerSample \/ SamplerSampleRaises

(***************************************************************************)
(* Field catalogs: an ordered mapping from field name to value list.       *)
(***************************************************************************)
Range(f) == {f[i] : i \in DOMAIN f}

InjectiveSeqs(S, n) == {q \in [1..n -> S] : \A i, j \in 1..n : q[i] = q[j] => i = j}

\* hash(field_name): Python salts str hashes per process, so each run has its
\* own function from names to hash values
HashOutcomes == {-50, 7}

\* the elements of seq at the positions in S, in order
Pick(seq, S) ==
    LET F[i \in 0..Len(seq)] ==
            IF i = 0 THEN <<>>
            ELSE IF i \in S THEN Append(F[i - 1], seq[i]) ELSE F[i - 1]
    IN  F[Len(seq)]

\* the catalogs whose fields are some of the given names, in that order, each
\* with a value list of at most maxValues values
Catalogs(names, maxValues) ==
    UNION {{[i \in 1..Len(ns) |-> [name |-> ns[i], values |-> ValueList(c[i])]] :
                c \in [1..Len(ns) -> 0..maxValues]} :
           ns \in {Pick(names, S) : S \in SUBSET (1..Len(names))}}

\* the hash functions of one process, over the names of a catalog
ProcessHashes(fields) ==
    {[n \in {fields[i].name : i \in 1..Len(fields)} |-> h] : h \in HashOutcomes}
    \cup {[n \in {fields[i].name : i \in 1..Len(fields)} |->
              IF n = fields[1].name THEN -50 ELSE 7]}

FieldNames(fields) == [i \in 1..Len(fields) |-> fields[i].name]

\* h % (2**31) for a 32-bit h, Python's non-negative remainder
Mod2p31(h) == IF h >= 0 THEN h ELSE (h + 2147483647) + 1

\* field_seed = seed + hash(field_name) % (2**31)
FieldSeed(seed, hash, field_name) == seed + Mod2p31(hash[field_name])

\* samplers = {}; for field_name, values in fields.items(): samplers[field_name] = ...
CreateSamplers(module, fields, seed, hash) ==
    [name \in Range(FieldNames(fields)) |->
        LET i == CHOOSE k \in 1..Len(fields) : fields[k].name = name
        IN  SkewedSampler(module, fields[i].values, FieldSeed(seed, hash, name))]

(***************************************************************************)
(* JSON objects are functions from keys to values.                         *)
(***************************************************************************)
EmptyDict == << >>

DictSet(d, k, v) == [x \in (DOMAIN d) \cup {k} |-> IF x = k THEN v ELSE d[x]]

Digit(d) == <<"0", "1", "2", "3", "4", "5", "6", "7", "8", "9">>[d + 1]

RECURSIVE DecStr(_)
DecStr(n) == IF n < 10 THEN Digit(n) ELSE DecStr(n \div 10) \o Digit(n % 10)

RECURSIVE ZeroPad(_, _)
ZeroPad(str, width) == IF Len(str) >= width THEN str ELSE ZeroPad("0" \o str, width)

\* f"doc-{doc_id:06d}"
DocIdStr(doc_id) == "doc-" \o ZeroPad(DecStr(doc_id), 6)

(***************************************************************************)
(* generate_bulk.py                                                        *)
(***************************************************************************)
Modes == {"keyword", "flattened"}

RECURSIVE KeywordProperties(_, _)
KeywordProperties(names, n) ==
    IF n = 0 THEN ("id" :> ("type" :> "keyword"))
    ELSE DictSet(KeywordProperties(names, n - 1), names[n], ("type" :> "keyword"))

create_index_payload(index_name, mode, fields) ==
    LET settings == ("number_of_shards" :> 1) @@ ("number_of_replicas" :> 1)
        mappings ==
            IF mode = "keyword"
            THEN [dynamic |-> FALSE,
                  properties |-> KeywordProperties(FieldNames(fields), Len(fields))]
            ELSE [dynamic |-> FALSE,
                  properties |-> ("id" :> ("type" :> "keyword"))
                                 @@ ("data" :> ("type" :> "flattened"))]
    IN  [index |-> index_name, settings |-> settings, mappings |-> mappings]

\* for field_name in fields.keys(): d[field_name] = <the value drawn for it>
RECURSIVE AssignFields(_, _, _, _)
AssignFields(d, names, n, drawn) ==
    IF n = 0 THEN d
    ELSE DictSet(AssignFields(d, names, n - 1, drawn), names[n], drawn[names[n]])

\* drawn[name] is what samplers[name].sample() returned for this document
generate_document(doc_id, mode, fields, drawn) ==
    LET doc_id_str == DocIdStr(doc_id)
        names == FieldNames(fields)
    IN  IF mode = "keyword"
        THEN AssignFields(("id" :> doc_id_str), names, Len(names), drawn)
        ELSE ("id" :> doc_id_str)
             @@ ("data" :> AssignFields(EmptyDict, names, Len(names), drawn))

ActionLine(index_name, doc_id) ==
    ("index" :> (("_index" :> index_name) @@ ("_id" :> DocIdStr(doc_id))))

\* the results the samplers can return for one document, one draw per field
DrawChoices(samplers, names) ==
    {f \in [names -> UNION {SampleOutcomes(samplers[n]) : n \in names}] :
        \A n \in names : f[n] \in SampleOutcomes(samplers[n])}

\* positions, in field order, at which sample() raises
RaisingAt(fields, samplers) ==
    {i \in 1..Len(fields) : SampleRaises(samplers[fields[i].name])}

BulkFieldNames == <<"color", "id">>

NoFile == [exists |-> FALSE, lines |-> <<>>]

BulkInit ==
    /\ bIn \in [mode : Modes, index_name : {"bench"},
                 fields : Catalogs(BulkFieldNames, MaxValues),
                 doc_count : 0..MaxDocs, seed : Seeds]
    /\ bHash \in ProcessHashes(bIn.fields)
    /\ bSamplers = EmptyDict
    /\ bFile = NoFile
    /\ bDocId = 1
    /\ bPc = "start"
    /\ SamplerIdle /\ QueryIdle /\ LoaderIdle

\* lines 145-152: the payload and the samplers
BulkCreateSamplers ==
    /\ bPc = "start"
    /\ bSamplers' = CreateSamplers("generate_bulk", bIn.fields, bIn.seed, bHash)
    /\ bPc' = "open"
    /\ UNCHANGED <<bIn, bHash, bFile, bDocId>>
    /\ UNCHANGED <<smpVars, qVars, lVars>>

\* lines 155-157: open(output_file, 'w') and the index payload line
BulkWriteHeader ==
    /\ bPc = "open"
    /\ bFile' = [exists |-> TRUE,
                 lines |-> <<create_index_payload(bIn.index_name, bIn.mode, bIn.fields)>>]
    /\ bPc' = "loop"
    /\ UNCHANGED <<bIn, bHash, bSamplers, bDocId>>
    /\ UNCHANGED <<smpVars, qVars, lVars>>

\* lines 160-172, one iteration in which every sample() returns
BulkWriteDoc ==
    /\ bPc = "loop"
    /\ bDocId <= bIn.doc_count
    /\ RaisingAt(bIn.fields, bSamplers) = {}
    /\ \E drawn \in DrawChoices(bSamplers, DOMAIN bSamplers) :
          bFile' = [bFile EXCEPT !.lines =
                       @ \o <<ActionLine(bIn.index_name, bDocId),
                              generate_document(bDocId, bIn.mode, bIn.fields, drawn)>>]
    /\ bSamplers' = [n \in DOMAIN bSamplers |-> Drawn(bSamplers[n])]
    /\ bDocId' = bDocId + 1
    /\ UNCHANGED <<bIn, bHash, bPc>>
    /\ UNCHANGED <<smpVars, qVars, lVars>>

\* lines 160-172, an iteration in which a sample() raises ValueError: the action
\* line is written, the exception leaves the with block (closing the file) and
\* ends the run
BulkWriteDocRaises ==
    /\ bPc = "loop"
    /\ bDocId <= bIn.doc_count
    /\ RaisingAt(bIn.fields, bSamplers) /= {}
    /\ bFile' = [bFile EXCEPT !.lines = Append(@, ActionLine(bIn.index_name, bDocId))]
    /\ LET first == CHOOSE i \in RaisingAt(bIn.fields, bSamplers) :
                        \A j \in RaisingAt(bIn.fields, bSamplers) : i <= j
       IN  bSamplers' = [n \in DOMAIN bSamplers |->
                            IF \E k \in 1..(first - 1) : bIn.fields[k].name = n
                            THEN Drawn(bSamplers[n]) ELSE bSamplers[n]]
    /\ bPc' = "ValueError"
    /\ UNCHANGED <<bIn, bHash, bDocId>>
    /\ UNCHANGED <<smpVars, qVars, lVars>>

\* lines 174-183: the line count check
BulkVerify ==
    /\ bPc = "loop"
    /\ bDocId > bIn.doc_count
    /\ LET line_count == Len(bFile.lines)
           expected == 1 + (bIn.doc_count * 2)
       IN  bPc' = IF line_count /= expected THEN "exit1" ELSE "done"
    /\ UNCHANGED <<bIn, bHash, bSamplers, bFile, bDocId>>
    /\ UNCHANGED <<smpVars, qVars, lVars>>

BulkNext ==
    \/ BulkCreateSamplers
    \/ BulkWriteHeader
    \/ BulkWriteDoc
    \/ BulkWriteDocRaises
    \/ BulkVerify

(***************************************************************************)
(* generate_queries.py                                                     *)
(***************************************************************************)
\* mutant: the flattened query uses the bare field name as well
TermPathBare(mode, field_name) == field_name

\* the key of a term: field_name, or f"data.{field_name}"
TermPath(mode, field_name) ==
    IF mode = "keyword" THEN field_name ELSE "data." \o field_name

generate_query(index_name, mode, field_names, field_values) ==
    LET filter_terms ==
            [i \in 1..Len(field_names) |->
                ("term" :> (TermPath(mode, field_names[i]) :> field_values[field_names[i]]))]
    IN  [index |-> index_name,
         body  |-> [track_total_hits |-> FALSE,
                    query |-> [bool |-> [filter |-> filter_terms]]]]

\* rng.randint(a, b) raises ValueError on an empty range, else returns a..b
RandintRaises(a, b) == a > b
RandintOutcomes(a, b) == a..b

\* rng.sample(population, k) raises ValueError unless 0 <= k <= len(population),
\* else returns k distinct elements in selection order
RngSampleRaises(population, k) == k < 0 \/ k > Len(population)
\* mutant: the k fields are picked with replacement
RngSampleWithReplacement(population, k) == [1..k -> Range(population)]

RngSampleOutcomes(population, k) == InjectiveSeqs(Range(population), k)

QueryFieldNames == <<"color", "size", "status">>

QueryInit ==
    /\ qIn \in [keyword_index : {"bench_kw"}, flattened_index : {"bench_flat"},
                 fields : Catalogs(QueryFieldNames, MaxQueryValues),
                 query_count : 0..MaxQueries,
                 min_filters : 0..MaxFilters, max_filters : 0..MaxFilters,
                 seed : {42}]
    /\ qHash \in ProcessHashes(qIn.fields)
    /\ qSamplers = EmptyDict
    /\ qKeyword = <<>>
    /\ qFlattened = <<>>
    /\ qFiles = [keyword |-> NoFile, flattened |-> NoFile]
    /\ qPc = "start"
    /\ SamplerIdle /\ BulkIdle /\ LoaderIdle

\* lines 109-120
QueryCreateSamplers ==
    /\ qPc = "start"
    /\ qSamplers' = CreateSamplers("generate_queries", qIn.fields, qIn.seed, qHash)
    /\ qPc' = "loop"
    /\ UNCHANGED <<qIn, qHash, qKeyword, qFlattened, qFiles>>
    /\ UNCHANGED <<smpVars, bVars, lVars>>

\* lines 122-138, one iteration that raises nothing
QueryGenerate ==
    /\ qPc = "loop"
    /\ Len(qKeyword) < qIn.query_count
    /\ ~RandintRaises(qIn.min_filters, qIn.max_filters)
    /\ \E num_filters \in RandintOutcomes(qIn.min_filters, qIn.max_filters) :
          /\ ~RngSampleRaises(FieldNames(qIn.fields), num_filters)
          /\ \E selected_fields \in RngSampleOutcomes(FieldNames(qIn.fields), num_filters) :
                /\ \A i \in 1..num_filters : ~SampleRaises(qSamplers[selected_fields[i]])
                /\ \E field_values \in DrawChoices(qSamplers, Range(selected_fields)) :
                      /\ qKeyword' = Append(qKeyword,
                             generate_query(qIn.keyword_index, "keyword",
                                            selected_fields, field_values))
                      /\ qFlattened' = Append(qFlattened,
                             generate_query(qIn.flattened_index, "flattened",
                                            selected_fields, field_values))
                /\ qSamplers' = [n \in DOMAIN qSamplers |->
                                    IF n \in Range(selected_fields)
                                    THEN Drawn(qSamplers[n]) ELSE qSamplers[n]]
    /\ UNCHANGED <<qIn, qHash, qFiles, qPc>>
    /\ UNCHANGED <<smpVars, bVars, lVars>>

\* lines 122-138, an iteration in which randint, sample or a sampler raises
\* ValueError; nothing catches it and the run ends before any file is written
QueryGenerateRaises ==
    /\ qPc = "loop"
    /\ Len(qKeyword) < qIn.query_count
    /\ \/ /\ RandintRaises(qIn.min_filters, qIn.max_filters)
          /\ UNCHANGED qSamplers
       \/ /\ ~RandintRaises(qIn.min_filters, qIn.max_filters)
          /\ \E num_filters \in RandintOutcomes(qIn.min_filters, qIn.max_filters) :
                /\ RngSampleRaises(FieldNames(qIn.fields), num_filters)
                /\ UNCHANGED qSamplers
       \/ /\ ~RandintRaises(qIn.min_filters, qIn.max_filters)
          /\ \E num_filters \in RandintOutcomes(qIn.min_filters, qIn.max_filters) :
                /\ ~RngSampleRaises(FieldNames(qIn.fields), num_filters)
                /\ \E selected_fields \in
                          RngSampleOutcomes(FieldNames(qIn.fields), num_filters) :
                      \E first \in 1..num_filters :
                         /\ SampleRaises(qSamplers[selected_fields[first]])
                         /\ \A k \in 1..(first - 1) :
                                ~SampleRaises(qSamplers[selected_fields[k]])
                         /\ qSamplers' = [n \in DOMAIN qSamplers |->
                                IF \E k \in 1..(first - 1) : selected_fields[k] = n
                                THEN Drawn(qSamplers[n]) ELSE qSamplers[n]]
    /\ qPc' = "ValueError"
    /\ UNCHANGED <<qIn, qHash, qKeyword, qFlattened, qFiles>>
    /\ UNCHANGED <<smpVars, bVars, lVars>>

FilterOf(query) == query.body.query.bool.filter

\* lines 140-153: both files are written, then the asserts run
QueryWriteAndVerify ==
    /\ qPc = "loop"
    /\ Len(qKeyword) >= qIn.query_count
    /\ qFiles' = [keyword   |-> [exists |-> TRUE, lines |-> qKeyword],
                  flattened |-> [exists |-> TRUE, lines |-> qFlattened]]
    /\ qPc' = IF /\ Len(qKeyword) = qIn.query_count
                 /\ Len(qFlattened) = qIn.query_count
                 /\ \A i \in 1..Len(qKeyword) :
                       /\ qIn.min_filters <= Len(FilterOf(qKeyword[i]))
                       /\ Len(FilterOf(qKeyword[i])) <= qIn.max_filters
              THEN "done" ELSE "AssertionError"
    /\ UNCHANGED <<qIn, qHash, qSamplers, qKeyword, qFlattened>>
    /\ UNCHANGED <<smpVars, bVars, lVars>>

QueryNext ==
    \/ QueryCreateSamplers
    \/ QueryGenerate
    \/ QueryGenerateRaises
    \/ QueryWriteAndVerify

(***************************************************************************)
(* index_data.py                                                           *)
(***************************************************************************)
\* a corpus file of N documents: the header line, then action / document pairs
RECURSIVE CorpusLines(_, _)
CorpusLines(index_name, N) ==
    IF N = 0 THEN <<create_index_payload(index_name, "flattened", <<>>)>>
    ELSE CorpusLines(index_name, N - 1)
         \o <<ActionLine(index_name, N), ("id" :> DocIdStr(N)) @@ ("data" :> EmptyDict)>>

\* outcomes of one HTTP request: a response arrives, or requests raises
HttpOutcomes == {"ok", "http_error", "exception"}

\* the per-document statuses Elasticsearch reports for an index action
ItemStatuses == {200, 201, 400}

\* the _bulk responses possible for a chunk of n documents: an exception in
\* requests.post, a body r.json() cannot parse, JSON without "items", or JSON
\* with one item per document
BulkResponses(n) ==
    {[kind |-> "exception", status_code |-> 0, items |-> <<>>]}
    \cup [kind : {"unparseable", "no_items"}, status_code : {200, 500}, items : {<<>>}]
    \cup [kind : {"items"}, status_code : {200},
          items : [1..n -> {("index" :> [status |-> st]) : st \in ItemStatuses}]]

\* mutant: a failed item is skipped instead of counted
RECURSIVE CountItemsSkippingFailures(_, _, _)
CountItemsSkippingFailures(counts, items, n) ==
    IF n = 0 THEN counts
    ELSE LET c == CountItemsSkippingFailures(counts, items, n - 1)
         IN  IF "index" \in DOMAIN items[n] /\ items[n]["index"].status \in {200, 201}
             THEN [c EXCEPT !.doc_count = @ + 1]
             ELSE c

\* lines 146-153: the counters after the items of one response
RECURSIVE CountItems(_, _, _)
CountItems(counts, items, n) ==
    IF n = 0 THEN counts
    ELSE LET c == CountItems(counts, items, n - 1)
             item == items[n]
         IN  IF "index" \in DOMAIN item
             THEN IF item["index"].status \in {200, 201}
                  THEN [c EXCEPT !.doc_count = @ + 1]
                  ELSE [c EXCEPT !.error_count = @ + 1,
                                 !.errors = Append(@, item["index"])]
             ELSE c

\* min(a, b)
Min(a, b) == IF a < b THEN a ELSE b

\* mutant: the slice ends chunk_size lines, not chunk_size documents, after
\* its start
ChunkOfLines(bulk_lines, chunk_start, chunk_size) ==
    SubSeq(bulk_lines, chunk_start + 1, Min(chunk_start + chunk_size, Len(bulk_lines)))

\* lines 126-127: chunk = bulk_lines[chunk_start:chunk_end]
Chunk(bulk_lines, chunk_start, chunk_size) ==
    LET chunk_end == Min(chunk_start + chunk_size * 2, Len(bulk_lines))
    IN  SubSeq(bulk_lines, chunk_start + 1, chunk_end)

Stopped(reason, code) == [reason |-> reason, code |-> code]
Running == Stopped("running", 0)

LoaderInit ==
    /\ lIn \in [bulk_file : {CorpusLines("bench", N) : N \in 0..MaxLoadDocs},
                chunk_docs : 1..MaxChunk, recreate : BOOLEAN, refresh : BOOLEAN]
    /\ es \in [exists : BOOLEAN, refresh_interval : {"1s"}]
    /\ lPc = "connect"
    /\ lBulkLines = <<>>
    /\ lChunkStart = 0
    /\ lSent = <<>>
    /\ lPuts = <<>>
    /\ lResponses = <<>>
    /\ lCounts = [doc_count |-> 0, error_count |-> 0, errors |-> <<>>]
    /\ lExit = Running
    /\ SamplerIdle /\ BulkIdle /\ QueryIdle

\* main, lines 182-204: the header is read and the connection is tried
MainConnect ==
    /\ lPc = "connect"
    /\ \E outcome \in HttpOutcomes :
          IF outcome = "ok"
          THEN /\ lPc' = IF lIn.recreate THEN "delete" ELSE "create"
               /\ UNCHANGED lExit
          ELSE /\ lPc' = "stopped"
               /\ lExit' = Stopped("sys.exit", 1)
    /\ UNCHANGED <<lIn, es, lBulkLines, lChunkStart, lSent, lPuts, lResponses, lCounts>>
    /\ UNCHANGED <<smpVars, bVars, qVars>>

\* delete_index_if_exists, lines 33-43
MainDelete ==
    /\ lPc = "delete"
    /\ \/ \* HEAD and DELETE answer; the index is gone if it was there
          /\ es' = [es EXCEPT !.exists = FALSE, !.refresh_interval = "1s"]
          /\ lPc' = "create"
          /\ UNCHANGED lExit
       \/ \* DELETE answers with an error status: nothing is reported
          /\ es.exists
          /\ lPc' = "create"
          /\ UNCHANGED <<es, lExit>>
       \/ \* a request raises
          /\ lPc' = "stopped"
          /\ lExit' = Stopped("sys.exit", 1)
          /\ UNCHANGED es
    /\ UNCHANGED <<lIn, lBulkLines, lChunkStart, lSent, lPuts, lResponses, lCounts>>
    /\ UNCHANGED <<smpVars, bVars, qVars>>

\* create_index, lines 46-65
MainCreateIndex ==
    /\ lPc = "create"
    /\ \/ \* 200 / 201
          /\ ~es.exists
          /\ es' = [es EXCEPT !.exists = TRUE, !.refresh_interval = "1s"]
          /\ lPc' = "disable"
          /\ UNCHANGED lExit
       \/ \* any other status (the index exists already, ...) or an exception
          /\ lPc' = "stopped"
          /\ lExit' = Stopped("sys.exit", 1)
          /\ UNCHANGED es
    /\ UNCHANGED <<lIn, lBulkLines, lChunkStart, lSent, lPuts, lResponses, lCounts>>
    /\ UNCHANGED <<smpVars, bVars, qVars>>

\* bulk_ingest, lines 105-122: refresh is disabled (the response is not
\* looked at) and the file's lines after the header are read
IngestDisableRefresh ==
    /\ lPc = "disable"
    /\ \E outcome \in HttpOutcomes :
          /\ es' = IF outcome = "ok" THEN [es EXCEPT !.refresh_interval = "-1"] ELSE es
          /\ lPuts' = Append(lPuts, [refresh_interval |-> "-1", outcome |-> outcome])
          /\ IF outcome = "exception"
             THEN /\ lPc' = "stopped"
                  /\ lExit' = Stopped("uncaught exception", 1)
                  /\ UNCHANGED lBulkLines
             ELSE /\ lPc' = "chunks"
                  /\ lBulkLines' = SubSeq(lIn.bulk_file, 2, Len(lIn.bulk_file))
                  /\ UNCHANGED lExit
    /\ UNCHANGED <<lIn, lChunkStart, lSent, lResponses, lCounts>>
    /\ UNCHANGED <<smpVars, bVars, qVars>>

\* lines 125-158: one iteration of the chunk loop (chunk_size >= 1)
IngestSendChunk ==
    /\ lPc = "chunks"
    /\ lChunkStart < Len(lBulkLines)
    /\ LET chunk == Chunk(lBulkLines, lChunkStart, lIn.chunk_docs)
       IN  /\ lSent' = Append(lSent, chunk)
           /\ \E r \in BulkResponses(Len(chunk) \div 2) :
                 /\ lResponses' = Append(lResponses, r)
                 /\ IF r.kind = "exception"
                    THEN \* except Exception: sys.exit(1)
                         /\ lPc' = "stopped"
                         /\ lExit' = Stopped("sys.exit in chunk handler", 1)
                         /\ UNCHANGED <<lCounts, lChunkStart>>
                    ELSE /\ lCounts' = IF r.kind = "items"
                                       THEN CountItems(lCounts, r.items, Len(r.items))
                                       ELSE lCounts
                         /\ lChunkStart' = lChunkStart + lIn.chunk_docs * 2
                         /\ UNCHANGED <<lPc, lExit>>
    /\ UNCHANGED <<lIn, es, lBulkLines, lPuts>>
    /\ UNCHANGED <<smpVars, bVars, qVars>>

\* lines 160-168: after the loop, refresh is re-enabled and the counts returned
IngestEnableRefresh ==
    /\ lPc = "chunks"
    /\ lChunkStart >= Len(lBulkLines)
    /\ \E outcome \in HttpOutcomes :
          /\ es' = IF outcome = "ok" THEN [es EXCEPT !.refresh_interval = "1s"] ELSE es
          /\ lPuts' = Append(lPuts, [refresh_interval |-> "1s", outcome |-> outcome])
          /\ IF outcome = "exception"
             THEN /\ lPc' = "stopped"
                  /\ lExit' = Stopped("uncaught exception", 1)
             ELSE /\ lPc' = IF lIn.refresh THEN "refresh" ELSE "report"
                  /\ UNCHANGED lExit
    /\ UNCHANGED <<lIn, lBulkLines, lChunkStart, lSent, lResponses, lCounts>>
    /\ UNCHANGED <<smpVars, bVars, qVars>>

\* main, lines 229-235: the requested refresh; an exception is caught and
\* only warned about
MainRefresh ==
    /\ lPc = "refresh"
    /\ lPc' = "report"
    /\ UNCHANGED <<lIn, es, lBulkLines, lChunkStart, lSent, lPuts, lResponses, lCounts, lExit>>
    /\ UNCHANGED <<smpVars, bVars, qVars>>

\* main, lines 237-257: the error check and the summary
MainReport ==
    /\ lPc = "report"
    /\ lPc' = "stopped"
    /\ lExit' = IF lCounts.error_count > 0
                THEN Stopped("sys.exit after errors", 1)
                ELSE Stopped("finished", 0)
    /\ UNCHANGED <<lIn, es, lBulkLines, lChunkStart, lSent, lPuts, lResponses, lCounts>>
    /\ UNCHANGED <<smpVars, bVars, qVars>>

LoaderNext ==
    \/ MainConnect
    \/ MainDelete
    \/ MainCreateIndex
    \/ IngestDisableRefresh
    \/ IngestSendChunk
    \/ IngestEnableRefresh
    \/ MainRefresh
    \/ MainReport

(***************************************************************************)
(* Specifications: one per program, the other programs not running.        *)
(***************************************************************************)
SpecSampler == SamplerInit /\ [][SamplerNext]_vars

SpecBulk == BulkInit /\ [][BulkNext]_vars

SpecQueries == QueryInit /\ [][QueryNext]_vars

SpecLoader == LoaderInit /\ [][LoaderNext]_vars

\* The corpus and then the queries are generated from one catalog and one
\* base seed, each generator in a process of its own.
BulkTerminal == {"done", "exit1", "ValueError"}

PipelineInit ==
    /\ bIn \in [mode : Modes, index_name : {"bench"},
                 fields : Catalogs(BulkFieldNames, MaxQueryValues),
                 doc_count : 0..1, seed : Seeds]
    /\ bHash \in ProcessHashes(bIn.fields)
    /\ bSamplers = EmptyDict
    /\ bFile = NoFile
    /\ bDocId = 1
    /\ bPc = "start"
    /\ qIn \in [keyword_index : {"bench_kw"}, flattened_index : {"bench_flat"},
                 fields : {bIn.fields}, query_count : 0..1,
                 min_filters : {1}, max_filters : 1..2, seed : {bIn.seed}]
    /\ qHash \in ProcessHashes(qIn.fields)
    /\ qSamplers = EmptyDict
    /\ qKeyword = <<>>
    /\ qFlattened = <<>>
    /\ qFiles = [keyword |-> NoFile, flattened |-> NoFile]
    /\ qPc = "start"
    /\ SamplerIdle /\ LoaderIdle

PipelineNext ==
    \/ BulkCreateSamplers
    \/ BulkWriteHeader
    \/ BulkWriteDoc
    \/ BulkWriteDocRaises
    \/ BulkVerify
    \/ (bPc \in BulkTerminal /\ QueryCreateSamplers)
    \/ QueryGenerate
    \/ QueryGenerateRaises
    \/ QueryWriteAndVerify

SpecPipeline == PipelineInit /\ [][PipelineNext]_vars

(***************************************************************************)
(* Properties.                                                             *)
(***************************************************************************)
BulkSamplersBuilt == bPc \notin {"idle", "start"}
QuerySamplersBuilt == qPc \notin {"idle", "start"}

HasEmptyField == \E i \in 1..Len(bIn.fields) : bIn.fields[i].values = <<>>

\* C1: given the same (well-formed) catalog and base seed, the samplers built
\* by generate_bulk and by generate_queries, each in its own run, get the
\* same per-field seed for every field.
C1_SamePerFieldSeeds ==
    (BulkSamplersBuilt /\ QuerySamplersBuilt /\ ~HasEmptyField) =>
        \A n \in DOMAIN bSamplers : bSamplers[n].seed = qSamplers[n].seed

\* the field path of one filter predicate {"term": {path: value}}
TermKey(t) == CHOOSE k \in DOMAIN t["term"] : TRUE
TermValue(t) == t["term"][TermKey(t)]

QueryLists == {qKeyword, qFlattened, qFiles.keyword.lines, qFiles.flattened.lines}

\* C2: with min_filters <= max_filters <= number of fields, every query
\* produced has between min_filters and max_filters filter predicates, on
\* pairwise distinct fields.
C2_FilterCountAndDistinctFields ==
    (qIn.min_filters <= qIn.max_filters /\ qIn.max_filters <= Len(qIn.fields)) =>
        \A list \in QueryLists : \A i \in 1..Len(list) :
            LET f == FilterOf(list[i])
            IN  /\ qIn.min_filters <= Len(f)
                /\ Len(f) <= qIn.max_filters
                /\ \A j, k \in 1..Len(f) : TermKey(f[j]) = TermKey(f[k]) => j = k

C2_Witness ==
    /\ qPc = "done"
    /\ qIn.min_filters < qIn.max_filters
    /\ qIn.max_filters <= Len(qIn.fields)
    /\ \E i \in 1..Len(qFiles.keyword.lines) :
          Len(FilterOf(qFiles.keyword.lines[i])) >= 2

PaddedIds == <<"doc-000001", "doc-000002", "doc-000003", "doc-000004">>

\* C3: the corpus generate_bulk writes for doc_count N has exactly 1 + 2N
\* lines: the index payload, then for n = 1..N an action line whose _id is
\* doc-<n padded to 6 digits> followed by the document whose id is that _id.
C3_CorpusLayout ==
    bPc = "done" =>
        /\ Len(bFile.lines) = 1 + 2 * bIn.doc_count
        /\ DOMAIN bFile.lines[1] = {"index", "settings", "mappings"}
        /\ \A n \in 1..bIn.doc_count :
              /\ DOMAIN bFile.lines[2 * n] = {"index"}
              /\ bFile.lines[2 * n]["index"]["_id"] = PaddedIds[n]
              /\ "id" \in DOMAIN bFile.lines[2 * n + 1]
              /\ bFile.lines[2 * n + 1]["id"] = bFile.lines[2 * n]["index"]["_id"]

\* the layout does hold when no catalog field is itself named "id"
C3_LayoutWithoutIdField ==
    ("id" \notin Range(FieldNames(bIn.fields)) \/ bIn.mode = "flattened") => C3_CorpusLayout

RefreshWasDisabled ==
    \E i \in 1..Len(lPuts) : lPuts[i] = [refresh_interval |-> "-1", outcome |-> "ok"]

RestoreRefused ==
    \E i \in 1..Len(lPuts) : lPuts[i].refresh_interval = "1s" /\ lPuts[i].outcome /= "ok"

\* C4: on every path by which the loader stops after having disabled
\* refresh, the refresh interval has been re-enabled (unless the engine
\* itself refused or never received the restoring request).
C4_RefreshRestoredOnEveryStop ==
    (lPc = "stopped" /\ RefreshWasDisabled) =>
        (es.refresh_interval = "1s" \/ RestoreRefused)

\* the failed document writes the engine has reported so far
FailedReported ==
    Cardinality({p \in UNION {{<<i, j>> : j \in 1..Len(lResponses[i].items)} :
                                 i \in 1..Len(lResponses)} :
                    lResponses[p[1]].items[p[2]]["index"].status \notin {200, 201}})

\* ceil(N / chunk_docs) for the N documents of the bulk file
NumChunks ==
    (((Len(lIn.bulk_file) - 1) \div 2) + lIn.chunk_docs - 1) \div lIn.chunk_docs

\* C5: a document write failure reported in a chunk's response is counted
\* and does not abort the batch (only an exception of the upload itself
\* stops the loop, and refresh is re-enabled only after the last chunk);
\* a loader that stops after a reported failure ends with a non-zero code.
C5_FailuresCountedNotAborting ==
    /\ lCounts.error_count = FailedReported
    /\ Len(lCounts.errors) = FailedReported
    /\ lExit.reason = "sys.exit in chunk handler" =>
          lResponses[Len(lResponses)].kind = "exception"
    /\ (\E i \in 1..Len(lPuts) : lPuts[i].refresh_interval = "1s") =>
          Len(lSent) = NumChunks
    /\ lExit.reason \in {"sys.exit after errors", "finished"} => Len(lSent) = NumChunks
    /\ (lPc = "stopped" /\ FailedReported > 0) => lExit.code /= 0

C5_Witness ==
    /\ lPc = "stopped"
    /\ lExit = Stopped("sys.exit after errors", 1)
    /\ Len(lSent) >= 2
    /\ lResponses[1].kind = "items"
    /\ lResponses[1].items[1]["index"].status = 400
    /\ lCounts.doc_count >= 1

SamplerBuilt == smpPc \in {"ready", "ValueError"}

TailRanks(p) == [i \in 1..(Len(p) - 3) |-> p[i + 3]]

C8_RankOrderClaimed ==
    SamplerBuilt =>
        LET p == smp.probs
        IN  /\ \A i \in 1..2 : i + 1 <= Len(p) => RatLeq(p[i + 1], p[i])
            /\ \A t \in 4..Len(p) : RatLeq(p[t], p[3])
            /\ \A t \in 4..(Len(p) - 1) : RatLeq(p[t + 1], p[t])

\* C8, amended: for K >= 4, rank 1 >= rank 2 >= rank 3 and the tail entries
\* are non-increasing in rank; rank 3 >= each tail entry from K = 9 on, while
\* for K = 4..8 rank 4 exceeds rank 3; for K = 2 and K = 3 the last rank
\* carries the remainder and exceeds the rank before it.
C8_RankOrder ==
    SamplerBuilt =>
        LET K == Len(smpIn.values)
            p == smp.probs
        IN  /\ K >= 4 => /\ RatLeq(p[2], p[1])
                         /\ RatLeq(p[3], p[2])
                         /\ \A t \in 4..(K - 1) : RatLeq(p[t + 1], p[t])
            /\ K >= 9 => \A t \in 4..K : RatLeq(p[t], p[3])
            /\ K \in 4..8 => ~RatLeq(p[4], p[3])
            /\ K \in 2..3 => ~RatLeq(p[K], p[K - 1])

C8_Witness ==
    /\ smpPc = "ready"
    /\ Len(smpIn.values) = 9
    /\ smpIn.module = "generate_bulk"

InvalidFilterRange ==
    qIn.min_filters > qIn.max_filters \/ qIn.max_filters > Len(qIn.fields)

\* C9: with min_filters > max_filters or max_filters above the number of
\* fields, generate_queries (asked for at least one query, of at least one
\* filter) never completes successfully.
C9_InvalidRangeRejected ==
    (InvalidFilterRange /\ qIn.query_count >= 1 /\ qIn.min_filters >= 1) => qPc /= "done"

\* C10: a catalog field with no values makes sampler construction fail, so
\* generate_bulk (asked for at least one document) ends without having
\* opened the output file, leaving no incomplete corpus.
C10_EmptyValueSetRejected ==
    (HasEmptyField /\ bIn.doc_count >= 1 /\ bPc \in BulkTerminal) => ~bFile.exists

\* lines 2..2N+1 of the bulk file, and its number of documents N
FileBody == SubSeq(lIn.bulk_file, 2, Len(lIn.bulk_file))
FileDocs == (Len(lIn.bulk_file) - 1) \div 2

\* the chunks sent so far, concatenated
RECURSIVE Concat(_, _)
Concat(chunks, n) == IF n = 0 THEN <<>> ELSE Concat(chunks, n - 1) \o chunks[n]

\* the chunk loop has run to its end (the restoring PUT follows it)
ChunkLoopDone == \E i \in 1..Len(lPuts) : lPuts[i].refresh_interval = "1s"

\* C11: for a well-formed corpus of N documents and chunk_size >= 1, the
\* chunks sent are, in order, the successive slices of lines 2..2N+1 of the
\* file: each holds whole action/document pairs, at least one and at most
\* chunk_size of them, and never the header; what has been sent so far is a
\* prefix of lines 2..2N+1, and once the chunk loop has run to its end there
\* are ceil(N / chunk_size) chunks whose concatenation is exactly lines
\* 2..2N+1.
C11_ChunksPartitionCorpus ==
    /\ \A i \in 1..Len(lSent) :
          LET chunk == lSent[i]
              first == 2 * lIn.chunk_docs * (i - 1)
          IN  /\ Len(chunk) % 2 = 0
              /\ 2 <= Len(chunk) /\ Len(chunk) <= 2 * lIn.chunk_docs
              /\ \A j \in 1..Len(chunk) :
                    /\ DOMAIN chunk[j] = IF j % 2 = 1 THEN {"index"} ELSE {"id", "data"}
                    /\ first + j <= Len(FileBody)
                    /\ chunk[j] = FileBody[first + j]
              /\ \A d \in 1..(Len(chunk) \div 2) :
                    chunk[2 * d]["id"] = chunk[2 * d - 1]["index"]["_id"]
    /\ Len(lSent) <= NumChunks
    /\ LET sent == Concat(lSent, Len(lSent))
       IN  /\ Len(sent) <= Len(FileBody)
           /\ sent = SubSeq(FileBody, 1, Len(sent))
           /\ ChunkLoopDone => /\ Len(lSent) = NumChunks
                               /\ Len(sent) = 2 * FileDocs
                               /\ sent = FileBody

C11_Witness ==
    /\ lExit = Stopped("finished", 0)
    /\ FileDocs = 3
    /\ lIn.chunk_docs = 2
    /\ Len(lSent) = 2
    /\ Len(lSent[1]) = 4
    /\ Len(lSent[2]) = 2

====
